---- MODULE Spec2Model ----
(***************************************************************************)
(* Model of the habit tracker's data-source layer:                         *)
(*   backend/data_sources/base.py            HabitEvent, DataSource        *)
(*   backend/data_sources/mock_data.py       MockDataSource                *)
(*   backend/data_sources/simple_sheets.py   SimpleGoogleSheetsDataSource  *)
(*   backend/data_sources/google_sheets.py   GoogleSheetsDataSource        *)
(*   backend/data_sources/supabase_source.py SupabaseDataSource            *)
(*   backend/data_sources/manager.py         DataSourceManager             *)
(*                                                                         *)
(* Time is counted in half hours since 2025-01-13T00:00.  A datetime is a  *)
(* record [t, aware]; an ISO date string is a record [t, tz] with tz "Z"   *)
(* (UTC suffix), "" (no offset) or "bad" (not an ISO string).  A HabitEvent*)
(* is the record [id, date, duration, source].  Every call whose outcome   *)
(* may be an exception yields [raised, val].                               *)
(***************************************************************************)
EXTENDS Integers, Sequences, FiniteSets, TLC

VARIABLES sources, primary_source, calendar_source, sample_data, last

vars == <<sources, primary_source, calendar_source, sample_data, last>>

(***************************************************************************)
(* Bounds of the model                                                     *)
(***************************************************************************)
MaxSources == 2
MaxDays == 2

(***************************************************************************)
(* Generic helpers                                                         *)
(***************************************************************************)
Range(s) == {s[i] : i \in 1..Len(s)}

Reverse(s) == [i \in 1..Len(s) |-> s[Len(s) + 1 - i]]

RECURSIVE Flatten(_)
Flatten(ss) == IF ss = <<>> THEN <<>> ELSE Head(ss) \o Flatten(Tail(ss))

Returned(v) == [raised |-> FALSE, val |-> v]
Raised == [raised |-> TRUE, val |-> <<>>]

(***************************************************************************)
(* datetime                                                                *)
(***************************************************************************)
HalfHoursPerDay == 48

Datetime(t, aware) == [t |-> t, aware |-> aware]
DateStr(t, tz) == [t |-> t, tz |-> tz]

\* datetime.fromisoformat(date.replace('Z', '+00:00')): an aware datetime for a
\* "Z" string, a naive one for a string with no offset, ValueError otherwise.
FromIsoFormat(date) ==
    IF date.tz = "bad" THEN Raised
    ELSE Returned(Datetime(date.t, date.tz = "Z"))

\* Mutant of DatetimeLe: the comparison made strict.
DatetimeLt(a, b) ==
    IF a.aware # b.aware THEN Raised ELSE Returned(a.t < b.t)

\* a <= b on datetimes: TypeError when exactly one of them is offset-aware.
DatetimeLe(a, b) ==
    IF a.aware # b.aware THEN Raised ELSE Returned(a.t <= b.t)

\* start_date <= habit_date <= end_date, a chained comparison: the second
\* comparison is evaluated only when the first one is true.
ChainedLe(start_date, habit_date, end_date) ==
    LET first == DatetimeLe(start_date, habit_date)
    IN  IF first.raised THEN Raised
        ELSE IF ~first.val THEN Returned(FALSE)
        ELSE DatetimeLe(habit_date, end_date)

\* end_date.replace(hour=0, minute=0, second=0, microsecond=0)
Midnight(d) == Datetime(d.t - (d.t % HalfHoursPerDay), d.aware)

\* d - timedelta(days=days)
MinusDays(d, days) == Datetime(d.t - days * HalfHoursPerDay, d.aware)

(***************************************************************************)
(* HabitEvent and the adapters' names                                      *)
(***************************************************************************)
HabitEvent(id, date, duration, source) ==
    [id |-> id, date |-> date, duration |-> duration, source |-> source]

MockName == "mock_data"
SimpleName == "google_sheets_simple"
ApiName == "google_sheets"
SupabaseName == "supabase"

\* An adapter object: its class, its name and, for the database adapter,
\* whether _initialize_client left a client.
Adapter(kind, name, client) == [kind |-> kind, name |-> name, client |-> client]

MockDataSource == Adapter("mock", MockName, FALSE)
SimpleGoogleSheetsDataSource == Adapter("simple", SimpleName, FALSE)
GoogleSheetsDataSource == Adapter("api", ApiName, FALSE)
SupabaseDataSource(configured) == Adapter("db", SupabaseName, configured)
\* any other DataSource subclass a caller registers with add_source
StubDataSource(name) == Adapter("stub", name, FALSE)

\* MockDataSource.__init__: the six fixture events.
SampleData ==
    << HabitEvent("cal_001", DateStr(60, "Z"), 60, MockName),
       HabitEvent("cal_002", DateStr(69, "Z"), 45, MockName),
       HabitEvent("cal_003", DateStr(84, "Z"), 90, MockName),
       HabitEvent("cal_004", DateStr(88, "Z"), 120, MockName),
       HabitEvent("cal_005", DateStr(38, "Z"), 30, MockName),
       HabitEvent("cal_006", DateStr(28, "Z"), 120, MockName) >>

(***************************************************************************)
(* What an adapter's backend answers during one call.  avail is the outcome*)
(* of the availability probe ("true", "false", or "raise" when it throws), *)
(* ok says whether the data request succeeds, rows is the data it yields.  *)
(* The probe and the data request are separate requests (the CSV adapter   *)
(* gives the first 10 s and the second 30 s; the database adapter selects  *)
(* "id" in the first and "*" in the second), so one may fail alone.        *)
(* A row is [id, date, duration, source, valid]: valid is FALSE for a row  *)
(* the adapter cannot turn into a HabitEvent.                              *)
(***************************************************************************)
Backend(avail, ok, rows) == [avail |-> avail, ok |-> ok, rows |-> rows]

Row(id, date, duration, source, valid) ==
    [id |-> id, date |-> date, duration |-> duration, source |-> source,
     valid |-> valid]

NoBackend == Backend("true", TRUE, <<>>)

\* CSV exports of the spreadsheet.
SheetCsvs ==
    { <<>>,
      << Row("x", DateStr(38, ""), 30, "", TRUE),
         Row("y", DateStr(50, ""), 15, "", TRUE),
         Row("cal_001", DateStr(84, "Z"), 20, "", TRUE),
         Row("z", DateStr(60, "bad"), 5, "", TRUE),
         Row("w", DateStr(84, ""), 0, "", FALSE) >> }

\* Contents of the database table.
DbTables ==
    { <<>>,
      << Row("x", DateStr(84, "Z"), 25, "upstream", TRUE),
         Row("q", DateStr(60, "Z"), 10, "upstream", FALSE),
         Row("y", DateStr(38, "Z"), 35, "supabase", TRUE),
         Row("v", DateStr(50, "Z"), 40, "mock_data", TRUE) >> }

\* Id lists a registered stub adapter answers with.
StubIdLists ==
    { <<>>, <<"x", "y">>, <<"y", "x">>, <<"x", "x">>, <<"cal_001", "x">> }

\* The events of the stub registered at position i: the duration tells the
\* copies apart (position i, j-th event of the answer).
StubRows(i, name, ids) ==
    [j \in 1..Len(ids) |->
        Row(ids[j], DateStr(60, "Z"), 10 * i + j, name, TRUE)]

\* The answers the backend of the adapter registered at position i can give.
Backends(src, i) ==
    CASE src.kind = "mock" -> {NoBackend}
      [] src.kind = "api" -> {NoBackend}
      [] src.kind = "simple" ->
            {Backend(avail, ok, rows) :
                avail \in {"true", "raise"}, ok \in {TRUE}, rows \in SheetCsvs}
            \cup {Backend(avail, FALSE, <<>>) : avail \in {"true", "raise"}}
      [] src.kind = "db" ->
            IF ~src.client THEN {NoBackend}
            ELSE {Backend(avail, ok, rows) :
                    avail \in {"true", "raise"}, ok \in {TRUE}, rows \in DbTables}
                 \cup {Backend(avail, FALSE, <<>>) : avail \in {"true", "raise"}}
      [] src.kind = "stub" ->
            {Backend("false", TRUE, <<>>), Backend("raise", TRUE, <<>>),
             Backend("true", FALSE, <<>>)}
            \cup {Backend("true", TRUE, StubRows(i, src.name, ids)) :
                    ids \in StubIdLists}

(***************************************************************************)
(* DataSource (base.py) and the adapters                                   *)
(***************************************************************************)
RowEvent(row, source) == HabitEvent(row.id, row.date, row.duration, source)

\* DataSource.add_source_metadata: habit.source = self.name for every habit.
add_source_metadata(self, habits) ==
    [j \in 1..Len(habits) |-> [habits[j] EXCEPT !.source = self.name]]

\* The rows an adapter turns into events, a failing row being skipped
\* (simple_sheets.py: except ... continue; supabase: _row_to_habit_event -> None).
RECURSIVE ParseRows(_, _)
ParseRows(rows, source) ==
    IF rows = <<>> THEN <<>>
    ELSE IF Head(rows).valid
         THEN <<RowEvent(Head(rows), source)>> \o ParseRows(Tail(rows), source)
         ELSE ParseRows(Tail(rows), source)

\* is_available() of each adapter class.
is_available(self, env) ==
    CASE self.kind = "mock" -> Returned(TRUE)
      [] self.kind = "api" -> Returned(FALSE)
      [] self.kind = "simple" -> Returned(env.avail = "true")
      [] self.kind = "db" ->
            IF ~self.client THEN Returned(FALSE)
            ELSE Returned(env.avail = "true")
      [] self.kind = "stub" ->
            IF env.avail = "raise" THEN Raised
            ELSE Returned(env.avail = "true")

\* The Python loop `for habit in habits: try: parse, compare, append
\* except: continue` shared by the mock and the CSV adapter.
RECURSIVE FilterByDateRange(_, _, _)
FilterByDateRange(habits, start_date, end_date) ==
    IF habits = <<>> THEN <<>>
    ELSE LET habit == Head(habits)
             habit_date == FromIsoFormat(habit.date)
             inside == IF habit_date.raised THEN Raised
                       ELSE ChainedLe(start_date, habit_date.val, end_date)
             rest == FilterByDateRange(Tail(habits), start_date, end_date)
         IN  IF ~inside.raised /\ inside.val THEN <<habit>> \o rest ELSE rest

\* MockDataSource.fetch_all_habits: self._sample_data.copy(), a shallow copy,
\* so the events returned are the fixture's own objects.
MockFetchAllHabits(sample) == sample

\* MockDataSource.fetch_habits_by_date_range
MockFetchHabitsByDateRange(sample, start_date, end_date) ==
    FilterByDateRange(sample, start_date, end_date)

\* SimpleGoogleSheetsDataSource.fetch_all_habits
SimpleFetchAllHabits(self, env) ==
    IF ~env.ok THEN <<>> ELSE ParseRows(env.rows, self.name)

\* SimpleGoogleSheetsDataSource.fetch_habits_by_date_range
SimpleFetchHabitsByDateRange(self, env, start_date, end_date) ==
    FilterByDateRange(SimpleFetchAllHabits(self, env), start_date, end_date)

\* SupabaseDataSource.fetch_all_habits
SupabaseFetchAllHabits(self, env) ==
    IF ~self.client THEN <<>>
    ELSE IF ~env.ok THEN <<>>
    ELSE add_source_metadata(self, ParseRows(env.rows, self.name))

\* .order("date"): ascending, by insertion.
RECURSIVE InsertByDate(_, _)
InsertByDate(row, sorted) ==
    IF sorted = <<>> THEN <<row>>
    ELSE IF row.date.t < Head(sorted).date.t THEN <<row>> \o sorted
    ELSE <<Head(sorted)>> \o InsertByDate(row, Tail(sorted))

RECURSIVE OrderByDate(_)
OrderByDate(rows) ==
    IF rows = <<>> THEN <<>>
    ELSE InsertByDate(rows[Len(rows)], OrderByDate(SubSeq(rows, 1, Len(rows) - 1)))

\* .gte("date", start_iso).lte("date", end_iso)
GteLte(rows, start_date, end_date) ==
    SelectSeq(rows, LAMBDA row : start_date.t <= row.date.t /\ row.date.t <= end_date.t)

\* SupabaseDataSource.fetch_habits_by_date_range
SupabaseFetchHabitsByDateRange(self, env, start_date, end_date) ==
    IF ~self.client THEN <<>>
    ELSE IF ~env.ok THEN <<>>
    ELSE add_source_metadata(self,
            ParseRows(OrderByDate(GteLte(env.rows, start_date, end_date)), self.name))

\* A variant that reports every insert as done.
create_habit_unconditional(self, env) == Returned(TRUE)

\* SupabaseDataSource.create_habit: False without a client or when the insert
\* raises, True otherwise.
create_habit(self, env) ==
    IF ~self.client THEN Returned(FALSE)
    ELSE Returned(env.ok)

\* fetch_all_habits() of each adapter class.
fetch_all_habits(self, env, sample) ==
    CASE self.kind = "mock" -> Returned(MockFetchAllHabits(sample))
      [] self.kind = "api" -> Returned(<<>>)
      [] self.kind = "simple" -> Returned(SimpleFetchAllHabits(self, env))
      [] self.kind = "db" -> Returned(SupabaseFetchAllHabits(self, env))
      [] self.kind = "stub" ->
            IF ~env.ok THEN Raised ELSE Returned(ParseRows(env.rows, self.name))

\* fetch_habits_by_date_range(start_date, end_date) of each adapter class.
fetch_habits_by_date_range(self, env, sample, start_date, end_date) ==
    CASE self.kind = "mock" ->
            Returned(MockFetchHabitsByDateRange(sample, start_date, end_date))
      [] self.kind = "api" -> Returned(<<>>)
      [] self.kind = "simple" ->
            Returned(SimpleFetchHabitsByDateRange(self, env, start_date, end_date))
      [] self.kind = "db" ->
            Returned(SupabaseFetchHabitsByDateRange(self, env, start_date, end_date))
      [] self.kind = "stub" ->
            IF ~env.ok THEN Raised ELSE Returned(ParseRows(env.rows, self.name))

\* DataSource.fetch_recent_habits(days), the default every adapter inherits.
fetch_recent_habits(self, env, sample, now, days) ==
    LET end_date == now
        start_date == MinusDays(Midnight(end_date), days)
    IN  fetch_habits_by_date_range(self, env, sample, start_date, end_date)

(***************************************************************************)
(* DataSourceManager (manager.py).  sources is the registered list;        *)
(* primary_source is a position in it, 0 standing for None;                *)
(* calendar_source is None or "GoogleCalendarSource".                      *)
(***************************************************************************)
None == "<None>"
StubNames == {"custom", MockName}
SourceNames ==
    {None, "", MockName, SimpleName, ApiName, SupabaseName, "custom", "unknown"}

\* Python truth value of a source_name argument.
Truthy(source_name) == source_name # None /\ source_name # ""

\* Mutant of _get_source: an unknown name falls back to the primary.
_get_source_fallback(srcs, primary, source_name) ==
    LET found == {i \in 1..Len(srcs) : srcs[i].name = source_name}
    IN  IF Truthy(source_name) /\ found # {}
        THEN CHOOSE i \in found : \A k \in found : i <= k
        ELSE primary

\* A variant that resolves a name to the latest adapter registered with it.
_get_source_latest(srcs, primary, source_name) ==
    IF Truthy(source_name)
    THEN LET found == {i \in 1..Len(srcs) : srcs[i].name = source_name}
         IN  IF found = {} THEN 0
             ELSE CHOOSE i \in found : \A k \in found : i >= k
    ELSE primary

\* DataSourceManager._get_source; 0 is None.
_get_source(srcs, primary, source_name) ==
    IF Truthy(source_name)
    THEN LET found == {i \in 1..Len(srcs) : srcs[i].name = source_name}
         IN  IF found = {} THEN 0
             ELSE CHOOSE i \in found : \A k \in found : i <= k
    ELSE primary

\* DataSourceManager.get_available_sources: the loop from position i on,
\* available being the names appended so far.
RECURSIVE AvailableFrom(_, _, _, _)
AvailableFrom(srcs, envs, i, available) ==
    IF i > Len(srcs) THEN Returned(available)
    ELSE LET avail == is_available(srcs[i], envs[i])
         IN  IF avail.raised THEN Raised
             ELSE AvailableFrom(srcs, envs, i + 1,
                    IF avail.val THEN Append(available, srcs[i].name) ELSE available)

\* A variant that lists the available names newest registration first.
get_available_sources_newest_first(srcs, envs) ==
    LET names == AvailableFrom(srcs, envs, 1, <<>>)
    IN  IF names.raised THEN Raised ELSE Returned(Reverse(names.val))

get_available_sources(srcs, envs) == AvailableFrom(srcs, envs, 1, <<>>)

\* What the adapter at position i adds to all_habits once it has reported
\* available: its fetch_all_habits result, nothing when it raises.
HabitsOf(srcs, envs, sample, i) ==
    LET habits == fetch_all_habits(srcs[i], envs[i], sample)
    IN  IF habits.raised THEN <<>> ELSE habits.val

\* The first loop of fetch_habits_from_all_sources from position i on,
\* all_habits being the events gathered so far.
RECURSIVE AllHabitsFrom(_, _, _, _, _)
AllHabitsFrom(srcs, envs, sample, i, all_habits) ==
    IF i > Len(srcs) THEN Returned(all_habits)
    ELSE LET avail == is_available(srcs[i], envs[i])
         IN  IF avail.raised THEN Raised
             ELSE AllHabitsFrom(srcs, envs, sample, i + 1,
                    IF avail.val THEN all_habits \o HabitsOf(srcs, envs, sample, i)
                    ELSE all_habits)

\* for habit in ...: if habit.id not in seen_ids: add, append
RECURSIVE KeepFirstSeen(_, _)
KeepFirstSeen(habits, seen_ids) ==
    IF habits = <<>> THEN <<>>
    ELSE IF Head(habits).id \notin seen_ids
         THEN <<Head(habits)>>
              \o KeepFirstSeen(Tail(habits), seen_ids \cup {Head(habits).id})
         ELSE KeepFirstSeen(Tail(habits), seen_ids)

\* Mutants of RemoveDuplicates: the pass made without reversing (the earlier
\* source wins), and the pass whose result is not reversed back.
RemoveDuplicatesKeepEarlier(all_habits) == KeepFirstSeen(all_habits, {})
RemoveDuplicatesNotRestored(all_habits) == KeepFirstSeen(Reverse(all_habits), {})

\* A variant that drops every id that occurs more than once.
RemoveDuplicatesDropRepeated(all_habits) ==
    SelectSeq(all_habits,
              LAMBDA habit : Cardinality({p \in 1..Len(all_habits) :
                                            all_habits[p].id = habit.id}) = 1)

\* The second half of fetch_habits_from_all_sources.
RemoveDuplicates(all_habits) == Reverse(KeepFirstSeen(Reverse(all_habits), {}))

\* DataSourceManager.fetch_habits_from_all_sources
fetch_habits_from_all_sources(srcs, envs, sample) ==
    LET all_habits == AllHabitsFrom(srcs, envs, sample, 1, <<>>)
    IN  IF all_habits.raised THEN Raised
        ELSE Returned(RemoveDuplicates(all_habits.val))

\* DataSourceManager.fetch_all_habits
ManagerFetchAllHabits(srcs, primary, source_name, env, sample) ==
    LET source == _get_source(srcs, primary, source_name)
    IN  IF source = 0 THEN Returned(<<>>)
        ELSE LET avail == is_available(srcs[source], env)
             IN  IF avail.raised THEN Raised
                 ELSE IF avail.val THEN fetch_all_habits(srcs[source], env, sample)
                 ELSE Returned(<<>>)

\* DataSourceManager.fetch_habits_by_date_range
ManagerFetchHabitsByDateRange(srcs, primary, start_date, end_date, source_name, env, sample) ==
    LET source == _get_source(srcs, primary, source_name)
    IN  IF source = 0 THEN Returned(<<>>)
        ELSE LET avail == is_available(srcs[source], env)
             IN  IF avail.raised THEN Raised
                 ELSE IF avail.val
                      THEN fetch_habits_by_date_range(srcs[source], env, sample,
                                                      start_date, end_date)
                 ELSE Returned(<<>>)

\* DataSourceManager.fetch_recent_habits
ManagerFetchRecentHabits(srcs, primary, now, days, source_name, env, sample) ==
    LET end_date == now
        start_date == MinusDays(end_date, days)
    IN  ManagerFetchHabitsByDateRange(srcs, primary, start_date, end_date,
                                      source_name, env, sample)

\* A variant that assigns whatever _get_source returns.
set_primary_source_unchecked(srcs, primary, source_name) ==
    [primary |-> _get_source(srcs, primary, source_name), ret |-> TRUE]

\* DataSourceManager.set_primary_source: the new primary and the value returned.
set_primary_source(srcs, primary, source_name) ==
    LET source == _get_source(srcs, primary, source_name)
    IN  IF source # 0 THEN [primary |-> source, ret |-> TRUE]
        ELSE [primary |-> primary, ret |-> FALSE]

\* A variant in which the calendar adapter can be constructed.
GoogleCalendarSourceBuilt == Returned("GoogleCalendarSource")

\* GoogleCalendarSource(): __init__ calls DataSource.__init__ without the name
\* argument and the class leaves the abstract methods unimplemented, so the
\* constructor raises.
GoogleCalendarSourceInit == Raised

\* The try/except around it in _initialize_sources.
InitialCalendarSource ==
    IF GoogleCalendarSourceInit.raised THEN None ELSE "GoogleCalendarSource"

FallbackUpcoming == <<"Evening meditation", "Reading session">>

\* A variant without the try/except around the calendar adapter's call.
get_upcoming_today_unguarded(calendar, upcoming) ==
    IF calendar # None THEN upcoming ELSE Returned(FallbackUpcoming)

\* DataSourceManager.get_upcoming_today; upcoming is what the calendar
\* adapter's own get_upcoming_today yields.
get_upcoming_today(calendar, upcoming) ==
    IF calendar # None /\ ~upcoming.raised THEN Returned(upcoming.val)
    ELSE Returned(FallbackUpcoming)

(***************************************************************************)
(* The state machine.  last records the call in progress: the operation,   *)
(* its arguments, the adapter it resolved and what the backends answered,  *)
(* the primary before the call, and the outcome.  A call starts when no    *)
(* call is in progress; Return hands the outcome to the caller.            *)
(***************************************************************************)
NoDatetime == Datetime(0, FALSE)

Call(op, source_name, start_date, end_date, days, source, old_primary, env, envs, ret) ==
    [op |-> op, source_name |-> source_name, start_date |-> start_date,
     end_date |-> end_date, days |-> days, source |-> source,
     old_primary |-> old_primary, env |-> env, envs |-> envs, ret |-> ret]

Idle == Call("idle", None, NoDatetime, NoDatetime, 0, 0, 0, NoBackend, <<>>,
             Returned(<<>>))

\* The bounds a caller passes to a range query, and the values of
\* datetime.now(), which is never offset-aware.
BoundTimes == {38, 84}
RangeBounds == {Datetime(t, aware) : t \in BoundTimes, aware \in BOOLEAN}
NowTimes == {96, 100}
Nows == {Datetime(t, FALSE) : t \in NowTimes}

\* The adapters a caller registers with add_source.
Addable ==
    {StubDataSource(name) : name \in StubNames}
    \cup {SupabaseDataSource(configured) : configured \in BOOLEAN}

\* The answers of every registered adapter's backend during one call: one
\* per position, for the positions i..Len(srcs).
RECURSIVE BackendsFrom(_, _)
BackendsFrom(srcs, i) ==
    IF i > Len(srcs) THEN {<<>>}
    ELSE LET rest == BackendsFrom(srcs, i + 1)
         IN  {<<env>> \o envs : env \in Backends(srcs[i], i), envs \in rest}

AllBackends(srcs) == BackendsFrom(srcs, 1)

\* The answers of the backend of the adapter a source_name resolves to.
ResolvedBackends(srcs, primary, source_name) ==
    LET source == _get_source(srcs, primary, source_name)
    IN  IF source = 0 THEN {NoBackend} ELSE Backends(srcs[source], source)

\* DataSourceManager.__init__ / _initialize_sources, the two environment
\* variables being set or not.
InitialSources(sheet_id, credentials_path) ==
    <<MockDataSource>>
    \o (IF sheet_id THEN <<SimpleGoogleSheetsDataSource>> ELSE <<>>)
    \o (IF sheet_id /\ credentials_path THEN <<GoogleSheetsDataSource>> ELSE <<>>)

InitialPrimary(sheet_id) == IF sheet_id THEN 2 ELSE 1

Init ==
    \E sheet_id \in BOOLEAN, credentials_path \in BOOLEAN :
        /\ sources = InitialSources(sheet_id, credentials_path)
        /\ primary_source = InitialPrimary(sheet_id)
        /\ calendar_source = InitialCalendarSource
        /\ sample_data = SampleData
        /\ last = Idle

\* A manager whose calendar_source attribute is either None or holds a
\* calendar adapter: get_upcoming_today reads the attribute, whoever set it.
CalendarInit ==
    \E calendar \in {None, "GoogleCalendarSource"} :
        /\ sources = InitialSources(FALSE, FALSE)
        /\ primary_source = InitialPrimary(FALSE)
        /\ calendar_source = calendar
        /\ sample_data = SampleData
        /\ last = Idle

\* DataSourceManager.add_source
AddSource ==
    \E source \in Addable :
        /\ last.op = "idle"
        /\ Len(sources) < MaxSources
        /\ sources' = Append(sources, source)
        /\ UNCHANGED <<primary_source, calendar_source, sample_data, last>>

SetPrimarySource ==
    \E source_name \in SourceNames :
        LET out == set_primary_source(sources, primary_source, source_name)
        IN  /\ last.op = "idle"
            /\ primary_source' = out.primary
            /\ last' = Call("set_primary_source", source_name, NoDatetime,
                            NoDatetime, 0,
                            _get_source(sources, primary_source, source_name),
                            primary_source, NoBackend, <<>>, Returned(out.ret))
            /\ UNCHANGED <<sources, calendar_source, sample_data>>

GetAvailableSources ==
    \E envs \in AllBackends(sources) :
        /\ last.op = "idle"
        /\ last' = Call("get_available_sources", None, NoDatetime, NoDatetime, 0,
                        0, primary_source, NoBackend, envs,
                        get_available_sources(sources, envs))
        /\ UNCHANGED <<sources, primary_source, calendar_source, sample_data>>

FetchAllHabits ==
    \E source_name \in SourceNames :
      \E env \in ResolvedBackends(sources, primary_source, source_name) :
        /\ last.op = "idle"
        /\ last' = Call("fetch_all_habits", source_name, NoDatetime, NoDatetime, 0,
                        _get_source(sources, primary_source, source_name),
                        primary_source, env, <<>>,
                        ManagerFetchAllHabits(sources, primary_source, source_name,
                                              env, sample_data))
        /\ UNCHANGED <<sources, primary_source, calendar_source, sample_data>>

FetchHabitsByDateRange ==
    \E source_name \in SourceNames, start_date \in RangeBounds, end_date \in RangeBounds :
      \E env \in ResolvedBackends(sources, primary_source, source_name) :
        /\ last.op = "idle"
        /\ last' = Call("fetch_habits_by_date_range", source_name, start_date,
                        end_date, 0,
                        _get_source(sources, primary_source, source_name),
                        primary_source, env, <<>>,
                        ManagerFetchHabitsByDateRange(sources, primary_source,
                            start_date, end_date, source_name, env, sample_data))
        /\ UNCHANGED <<sources, primary_source, calendar_source, sample_data>>

FetchRecentHabits ==
    \E source_name \in SourceNames, now \in Nows, days \in 1..MaxDays :
      \E env \in ResolvedBackends(sources, primary_source, source_name) :
        /\ last.op = "idle"
        /\ last' = Call("fetch_recent_habits", source_name,
                        MinusDays(now, days), now, days,
                        _get_source(sources, primary_source, source_name),
                        primary_source, env, <<>>,
                        ManagerFetchRecentHabits(sources, primary_source, now, days,
                                                 source_name, env, sample_data))
        /\ UNCHANGED <<sources, primary_source, calendar_source, sample_data>>

FetchHabitsFromAllSources ==
    \E envs \in AllBackends(sources) :
        /\ last.op = "idle"
        /\ last' = Call("fetch_habits_from_all_sources", None, NoDatetime,
                        NoDatetime, 0, 0, primary_source, NoBackend, envs,
                        fetch_habits_from_all_sources(sources, envs, sample_data))
        /\ UNCHANGED <<sources, primary_source, calendar_source, sample_data>>

\* What the calendar adapter's get_upcoming_today yields when it is called.
Upcomings == {Returned(<<>>), Returned(<<"9:00 AM - Standup">>), Raised}

GetUpcomingToday ==
    \E upcoming \in (IF calendar_source = None THEN {Raised} ELSE Upcomings) :
        /\ last.op = "idle"
        /\ last' = Call("get_upcoming_today", None, NoDatetime, NoDatetime, 0, 0,
                        primary_source,
                        Backend("true", ~upcoming.raised, upcoming.val), <<>>,
                        get_upcoming_today(calendar_source, upcoming))
        /\ UNCHANGED <<sources, primary_source, calendar_source, sample_data>>

\* A caller holding a registered adapter calls it directly.
AdapterIsAvailable ==
    \E i \in 1..Len(sources) : \E env \in Backends(sources[i], i) :
        /\ last.op = "idle"
        /\ last' = Call("adapter.is_available", None, NoDatetime, NoDatetime, 0,
                        i, primary_source, env, <<>>, is_available(sources[i], env))
        /\ UNCHANGED <<sources, primary_source, calendar_source, sample_data>>

AdapterFetchAllHabits ==
    \E i \in 1..Len(sources) : \E env \in Backends(sources[i], i) :
        /\ last.op = "idle"
        /\ last' = Call("adapter.fetch_all_habits", None, NoDatetime, NoDatetime,
                        0, i, primary_source, env, <<>>,
                        fetch_all_habits(sources[i], env, sample_data))
        /\ UNCHANGED <<sources, primary_source, calendar_source, sample_data>>

AdapterFetchHabitsByDateRange ==
    \E i \in 1..Len(sources), start_date \in RangeBounds, end_date \in RangeBounds :
      \E env \in Backends(sources[i], i) :
        /\ last.op = "idle"
        /\ last' = Call("adapter.fetch_habits_by_date_range", None, start_date,
                        end_date, 0, i, primary_source, env, <<>>,
                        fetch_habits_by_date_range(sources[i], env, sample_data,
                                                   start_date, end_date))
        /\ UNCHANGED <<sources, primary_source, calendar_source, sample_data>>

AdapterCreateHabit ==
    \E i \in 1..Len(sources) : \E env \in Backends(sources[i], i) :
        /\ last.op = "idle"
        /\ sources[i].kind = "db"
        /\ last' = Call("adapter.create_habit", None, NoDatetime, NoDatetime, 0,
                        i, primary_source, env, <<>>, create_habit(sources[i], env))
        /\ UNCHANGED <<sources, primary_source, calendar_source, sample_data>>

\* A caller that received the mock adapter's events from fetch_all_habits
\* assigns the source field of the first one: HabitEvent is a mutable pydantic
\* model and the list holds the fixture's own objects.
EditedSource == "edited"

CallerEditsSource ==
    /\ last.op = "fetch_all_habits"
    /\ last.source # 0
    /\ sources[last.source].kind = "mock"
    /\ ~last.ret.raised
    /\ last.ret.val # <<>>
    /\ \E k \in 1..Len(sample_data) :
          /\ sample_data[k].id = last.ret.val[1].id
          /\ sample_data' = [sample_data EXCEPT ![k].source = EditedSource]
    /\ last' = Idle
    /\ UNCHANGED <<sources, primary_source, calendar_source>>

\* The call in progress returns (or raises) to its caller.
Return ==
    /\ last.op # "idle"
    /\ last' = Idle
    /\ UNCHANGED <<sources, primary_source, calendar_source, sample_data>>

Next ==
    \/ AddSource
    \/ SetPrimarySource
    \/ GetAvailableSources
    \/ FetchAllHabits
    \/ FetchHabitsByDateRange
    \/ FetchRecentHabits
    \/ FetchHabitsFromAllSources
    \/ GetUpcomingToday
    \/ AdapterIsAvailable
    \/ AdapterFetchAllHabits
    \/ AdapterFetchHabitsByDateRange
    \/ AdapterCreateHabit
    \/ CallerEditsSource
    \/ Return

Spec == Init /\ [][Next]_vars

SpecCalendar == CalendarInit /\ [][Next]_vars

(***************************************************************************)
(* utils/tag_validation.py.  A Python string is the sequence of its         *)
(* characters, each a one-character string, so that the regular expressions *)
(* and str methods are computed character by character.                     *)
(***************************************************************************)

\* The characters the model distinguishes, in code point order.
Chars ==
    <<"\t", "\n", "\f", "\r", " ", "!", ",", "-",
      "0", "1", "2", "3", "4", "5", "6", "7", "8", "9",
      "A", "B", "C", "D", "E", "F", "G", "H", "I", "J", "K", "L", "M",
      "N", "O", "P", "Q", "R", "S", "T", "U", "V", "W", "X", "Y", "Z",
      "_",
      "a", "b", "c", "d", "e", "f", "g", "h", "i", "j", "k", "l", "m",
      "n", "o", "p", "q", "r", "s", "t", "u", "v", "w", "x", "y", "z">>

Whitespace == {" ", "\t", "\n", "\r", "\f"}

Digits == {"0", "1", "2", "3", "4", "5", "6", "7", "8", "9"}

Uppers == <<"A", "B", "C", "D", "E", "F", "G", "H", "I", "J", "K", "L", "M",
            "N", "O", "P", "Q", "R", "S", "T", "U", "V", "W", "X", "Y", "Z">>

Lowers == <<"a", "b", "c", "d", "e", "f", "g", "h", "i", "j", "k", "l", "m",
            "n", "o", "p", "q", "r", "s", "t", "u", "v", "w", "x", "y", "z">>

Ord(c) == CHOOSE i \in 1..Len(Chars) : Chars[i] = c

\* str.lower()
LowerChar(c) ==
    IF \E i \in 1..Len(Uppers) : Uppers[i] = c
    THEN Lowers[CHOOSE i \in 1..Len(Uppers) : Uppers[i] = c]
    ELSE c

lower(s) == [i \in 1..Len(s) |-> LowerChar(s[i])]

\* str.strip(chars); strip() without argument strips Whitespace.
RECURSIVE lstrip(_, _)
lstrip(s, chars) ==
    IF s = <<>> \/ Head(s) \notin chars THEN s ELSE lstrip(Tail(s), chars)

strip(s, chars) == Reverse(lstrip(Reverse(lstrip(s, chars)), chars))

\* re.sub(r'[class]+', repl, s): every maximal run of characters of class is
\* replaced by repl; out is the text produced for s[1..i-1].
RECURSIVE SubRunsFrom(_, _, _, _, _)
SubRunsFrom(s, i, class, repl, out) ==
    IF i > Len(s) THEN out
    ELSE SubRunsFrom(s, i + 1, class, repl,
            IF s[i] \notin class THEN Append(out, s[i])
            ELSE IF i > 1 /\ s[i - 1] \in class THEN out
            ELSE out \o repl)

SubRuns(s, class, repl) == SubRunsFrom(s, 1, class, repl, <<>>)

\* keyword in name
Contains(s, sub) ==
    \E i \in 1..(Len(s) - Len(sub) + 1) : SubSeq(s, i, i + Len(sub) - 1) = sub

\* str < str
RECURSIVE StrLess(_, _)
StrLess(a, b) ==
    IF b = <<>> THEN FALSE
    ELSE IF a = <<>> THEN TRUE
    ELSE IF Head(a) # Head(b) THEN Ord(Head(a)) < Ord(Head(b))
    ELSE StrLess(Tail(a), Tail(b))

\* sorted(list(set_of_strings))
RECURSIVE Sorted(_)
Sorted(strs) ==
    IF strs = {} THEN <<>>
    ELSE LET least == CHOOSE a \in strs : \A b \in strs \ {a} : StrLess(a, b)
         IN  <<least>> \o Sorted(strs \ {least})

\* The tag names of the approved set, spelled out.
Tag ==
    [health |-> <<"h", "e", "a", "l", "t", "h">>,
     exercise |-> <<"e", "x", "e", "r", "c", "i", "s", "e">>,
     workout |-> <<"w", "o", "r", "k", "o", "u", "t">>,
     food |-> <<"f", "o", "o", "d">>,
     cooking |-> <<"c", "o", "o", "k", "i", "n", "g">>,
     meal_prep |-> <<"m", "e", "a", "l", "-", "p", "r", "e", "p">>,
     meal |-> <<"m", "e", "a", "l">>,
     takeout |-> <<"t", "a", "k", "e", "o", "u", "t">>,
     grocery |-> <<"g", "r", "o", "c", "e", "r", "y">>,
     restock |-> <<"r", "e", "s", "t", "o", "c", "k">>,
     home |-> <<"h", "o", "m", "e">>,
     cleaning |-> <<"c", "l", "e", "a", "n", "i", "n", "g">>,
     laundry |-> <<"l", "a", "u", "n", "d", "r", "y">>,
     bathroom |-> <<"b", "a", "t", "h", "r", "o", "o", "m">>,
     transportation |-> <<"t", "r", "a", "n", "s", "p", "o", "r", "t", "a", "t", "i", "o", "n">>,
     public_transit |-> <<"p", "u", "b", "l", "i", "c", "-", "t", "r", "a", "n", "s", "i", "t">>,
     walking_errand |-> <<"w", "a", "l", "k", "i", "n", "g", "-", "e", "r", "r", "a", "n", "d">>,
     rideshare |-> <<"r", "i", "d", "e", "s", "h", "a", "r", "e">>,
     cost_saving |-> <<"c", "o", "s", "t", "-", "s", "a", "v", "i", "n", "g">>]

UMBRELLA_TAGS == {Tag.health, Tag.food, Tag.home, Tag.transportation}

APPROVED_TAGS ==
    {Tag.health, Tag.exercise, Tag.workout,
     Tag.food, Tag.cooking, Tag.meal_prep, Tag.meal, Tag.takeout, Tag.grocery, Tag.restock,
     Tag.home, Tag.cleaning, Tag.laundry, Tag.bathroom,
     Tag.transportation, Tag.public_transit, Tag.walking_errand, Tag.rideshare, Tag.cost_saving}

\* The dict in insertion order, one entry per umbrella.
TAG_HIERARCHY ==
    <<[umbrella |-> Tag.health,
       specific_tags |-> <<Tag.exercise, Tag.workout>>],
      [umbrella |-> Tag.food,
       specific_tags |-> <<Tag.cooking, Tag.meal_prep, Tag.meal, Tag.takeout, Tag.grocery, Tag.restock>>],
      [umbrella |-> Tag.home,
       specific_tags |-> <<Tag.cleaning, Tag.laundry, Tag.bathroom>>],
      [umbrella |-> Tag.transportation,
       specific_tags |-> <<Tag.public_transit, Tag.walking_errand, Tag.rideshare, Tag.cost_saving>>]>>

\* A variant without contextual tags.
NoContextualTags == {}

CONTEXTUAL_TAGS == {Tag.cost_saving, Tag.restock}

\* keyword_mapping of suggest_tags_for_habit_name, in insertion order.
keyword_mapping ==
    <<[keyword |-> <<"w", "o", "r", "k", "o", "u", "t">>,
       tags |-> <<Tag.health, Tag.exercise, Tag.workout>>],
      [keyword |-> <<"g", "y", "m">>,
       tags |-> <<Tag.health, Tag.exercise, Tag.workout>>],
      [keyword |-> <<"r", "u", "n">>,
       tags |-> <<Tag.health, Tag.exercise>>],
      [keyword |-> <<"e", "x", "e", "r", "c", "i", "s", "e">>,
       tags |-> <<Tag.health, Tag.exercise>>],
      [keyword |-> <<"f", "i", "t", "n", "e", "s", "s">>,
       tags |-> <<Tag.health, Tag.exercise>>],
      [keyword |-> <<"c", "o", "o", "k">>,
       tags |-> <<Tag.food, Tag.cooking>>],
      [keyword |-> <<"m", "e", "a", "l">>,
       tags |-> <<Tag.food, Tag.cooking, Tag.meal>>],
      [keyword |-> <<"p", "r", "e", "p">>,
       tags |-> <<Tag.food, Tag.meal_prep>>],
      [keyword |-> <<"g", "r", "o", "c", "e", "r", "y">>,
       tags |-> <<Tag.food, Tag.grocery, Tag.restock>>],
      [keyword |-> <<"t", "r", "a", "d", "e", "r">>,
       tags |-> <<Tag.food, Tag.grocery, Tag.restock>>],
      [keyword |-> <<"s", "a", "f", "e", "w", "a", "y">>,
       tags |-> <<Tag.food, Tag.grocery, Tag.restock>>],
      [keyword |-> <<"t", "a", "k", "e", "o", "u", "t">>,
       tags |-> <<Tag.food, Tag.takeout>>],
      [keyword |-> <<"p", "i", "c", "k", "u", "p">>,
       tags |-> <<Tag.food, Tag.takeout>>],
      [keyword |-> <<"d", "i", "n", "n", "e", "r">>,
       tags |-> <<Tag.food, Tag.cooking, Tag.meal>>],
      [keyword |-> <<"l", "u", "n", "c", "h">>,
       tags |-> <<Tag.food, Tag.cooking, Tag.meal>>],
      [keyword |-> <<"b", "r", "e", "a", "k", "f", "a", "s", "t">>,
       tags |-> <<Tag.food, Tag.cooking, Tag.meal>>],
      [keyword |-> <<"c", "l", "e", "a", "n">>,
       tags |-> <<Tag.home, Tag.cleaning>>],
      [keyword |-> <<"l", "a", "u", "n", "d", "r", "y">>,
       tags |-> <<Tag.home, Tag.laundry, Tag.cleaning>>],
      [keyword |-> <<"b", "a", "t", "h", "r", "o", "o", "m">>,
       tags |-> <<Tag.home, Tag.bathroom, Tag.cleaning>>],
      [keyword |-> <<"h", "o", "u", "s", "e">>,
       tags |-> <<Tag.home, Tag.cleaning>>],
      [keyword |-> <<"b", "a", "r", "t">>,
       tags |-> <<Tag.transportation, Tag.public_transit>>],
      [keyword |-> <<"b", "u", "s">>,
       tags |-> <<Tag.transportation, Tag.public_transit>>],
      [keyword |-> <<"t", "r", "a", "i", "n">>,
       tags |-> <<Tag.transportation, Tag.public_transit>>],
      [keyword |-> <<"t", "r", "a", "n", "s", "i", "t">>,
       tags |-> <<Tag.transportation, Tag.public_transit>>],
      [keyword |-> <<"w", "a", "l", "k">>,
       tags |-> <<Tag.transportation, Tag.walking_errand>>],
      [keyword |-> <<"u", "b", "e", "r">>,
       tags |-> <<Tag.transportation, Tag.rideshare>>],
      [keyword |-> <<"l", "y", "f", "t">>,
       tags |-> <<Tag.transportation, Tag.rideshare>>]>>

\* re.match(r'^[a-z]+(-[a-z]+)*$', tag) read from position i; state says
\* whether the pattern stands at the start, inside a run of letters or just
\* after a hyphen.  Python's $ matches at the end of the string and also
\* just before a newline that ends the string.
RECURSIVE KebabMatch(_, _, _)
KebabMatch(tag, i, state) ==
    IF i > Len(tag) THEN state = "run"
    ELSE IF tag[i] \in Range(Lowers) THEN KebabMatch(tag, i + 1, "run")
    ELSE IF tag[i] = "-" /\ state = "run" THEN KebabMatch(tag, i + 1, "hyphen")
    ELSE tag[i] = "\n" /\ i = Len(tag) /\ state = "run"

\* TagValidator.is_kebab_case
is_kebab_case(tag) == KebabMatch(tag, 1, "start")

\* A variant that strips the hyphens before it removes the other characters.
normalize_tag_strip_first(tag) ==
    LET hyphenated == SubRuns(strip(lower(tag), Whitespace),
                              {"_"} \cup Whitespace, <<"-">>)
        single == SubRuns(strip(hyphenated, {"-"}), {"-"}, <<"-">>)
    IN  SelectSeq(single, LAMBDA c : c \in Range(Lowers) \cup Digits \cup {"-"})

\* A variant without the final strip('-').
normalize_tag_untrimmed(tag) ==
    LET hyphenated == SubRuns(strip(lower(tag), Whitespace),
                              {"_"} \cup Whitespace, <<"-">>)
        alphanumeric == SelectSeq(hyphenated,
                            LAMBDA c : c \in Range(Lowers) \cup Digits \cup {"-"})
    IN  SubRuns(alphanumeric, {"-"}, <<"-">>)

\* TagValidator.normalize_tag
normalize_tag(tag) ==
    LET hyphenated == SubRuns(strip(lower(tag), Whitespace),
                              {"_"} \cup Whitespace, <<"-">>)
        alphanumeric == SelectSeq(hyphenated,
                            LAMBDA c : c \in Range(Lowers) \cup Digits \cup {"-"})
        single == SubRuns(alphanumeric, {"-"}, <<"-">>)
    IN  strip(single, {"-"})

\* A variant that wants every tag to be an umbrella tag.
has_only_umbrella_tags(tags) == \A i \in 1..Len(tags) : tags[i] \in UMBRELLA_TAGS

\* TagValidator.has_umbrella_tag
has_umbrella_tag(tags) == \E i \in 1..Len(tags) : tags[i] \in UMBRELLA_TAGS

\* The empty string stands for None: both are false in `if umbrella`.
NoTag == <<>>

\* TagValidator.get_umbrella_for_tag: the first entry of TAG_HIERARCHY that
\* holds the tag.
get_umbrella_for_tag(tag) ==
    LET holds(k) == \/ tag \in Range(TAG_HIERARCHY[k].specific_tags)
                    \/ tag = TAG_HIERARCHY[k].umbrella
        found == {k \in 1..Len(TAG_HIERARCHY) : holds(k)}
    IN  IF found = {} THEN NoTag
        ELSE TAG_HIERARCHY[CHOOSE k \in found : \A j \in found : k <= j].umbrella

\* A variant that lists the umbrellas in the order of the tags, unsorted.
suggest_umbrella_tags_in_tag_order(tags) ==
    SelectSeq([i \in 1..Len(tags) |-> get_umbrella_for_tag(tags[i])],
              LAMBDA umbrella : umbrella # NoTag /\ umbrella \notin Range(tags))

\* TagValidator.suggest_umbrella_tags
suggest_umbrella_tags(tags) ==
    Sorted({get_umbrella_for_tag(tags[i]) : i \in 1..Len(tags)}
           \ ({NoTag} \cup Range(tags)))

\* A message of the result: the literal text with {} where the arguments go
\* (a list argument is joined with ", ").
Message(text, args) == [text |-> text, args |-> args]

TagValidationResult(is_valid, normalized_tags, errors, warnings, suggestions) ==
    [is_valid |-> is_valid, normalized_tags |-> normalized_tags,
     errors |-> errors, warnings |-> warnings, suggestions |-> suggestions]

\* Step 1 of validate_and_normalize from position i on: blank tags and tags
\* that normalize to nothing are skipped; a kept tag that normalization
\* changed is reported.
RECURSIVE NormalizeFrom(_, _, _, _)
NormalizeFrom(tags, i, normalized_tags, suggestions) ==
    IF i > Len(tags)
    THEN [normalized_tags |-> normalized_tags, suggestions |-> suggestions]
    ELSE LET tag == tags[i]
             normalized == IF strip(tag, Whitespace) = <<>> THEN <<>>
                           ELSE normalize_tag(tag)
         IN  IF normalized = <<>>
             THEN NormalizeFrom(tags, i + 1, normalized_tags, suggestions)
             ELSE NormalizeFrom(tags, i + 1, Append(normalized_tags, normalized),
                    IF normalized # tag
                    THEN Append(suggestions,
                                Message("'{}' normalized to '{}'", <<tag, normalized>>))
                    ELSE suggestions)

\* A variant that keeps the list as it is.
KeepAllFrom(tags, i, unique_normalized) == tags

\* "Remove duplicates while preserving order"
RECURSIVE UniqueFrom(_, _, _)
UniqueFrom(tags, i, unique_normalized) ==
    IF i > Len(tags) THEN unique_normalized
    ELSE UniqueFrom(tags, i + 1,
            IF tags[i] \in Range(unique_normalized) THEN unique_normalized
            ELSE Append(unique_normalized, tags[i]))

\* Step 2: the tags that are not kebab-case.
invalid_format_tags(normalized_tags) ==
    SelectSeq(normalized_tags, LAMBDA tag : ~is_kebab_case(tag))

\* A variant that reports every tag.
every_tag(normalized_tags) == normalized_tags

\* Step 3: the tags outside APPROVED_TAGS.
unapproved_tags(normalized_tags) ==
    SelectSeq(normalized_tags, LAMBDA tag : tag \notin APPROVED_TAGS)

\* Steps 2 to 5 of validate_and_normalize on the deduplicated tags.
ValidateNormalized(normalized_tags, normalization_suggestions) ==
    LET invalid_format == invalid_format_tags(normalized_tags)
        unapproved == unapproved_tags(normalized_tags)
        umbrella == has_umbrella_tag(normalized_tags)
        suggested_umbrellas == suggest_umbrella_tags(normalized_tags)
        umbrella_count ==
            Cardinality({i \in 1..Len(normalized_tags) :
                            normalized_tags[i] \in UMBRELLA_TAGS})
        specific_count ==
            Cardinality({i \in 1..Len(normalized_tags) :
                            /\ normalized_tags[i] \notin UMBRELLA_TAGS
                            /\ normalized_tags[i] \notin CONTEXTUAL_TAGS})
        errors ==
            (IF invalid_format # <<>>
             THEN <<Message("Tags must use kebab-case format: {}", invalid_format)>>
             ELSE <<>>)
            \o (IF ~umbrella
                THEN <<Message("At least one umbrella tag is required (health, food, home, transportation)", <<>>)>>
                ELSE <<>>)
        warnings ==
            IF unapproved # <<>>
            THEN <<Message("Unapproved tags detected: {}", unapproved)>>
            ELSE <<>>
        suggestions ==
            normalization_suggestions
            \o (IF unapproved # <<>>
                THEN <<Message("Consider using approved tags from the PRD or request new tag approval", <<>>)>>
                ELSE <<>>)
            \o (IF ~umbrella /\ suggested_umbrellas # <<>>
                THEN <<Message("Consider adding umbrella tag(s): {}", suggested_umbrellas)>>
                ELSE <<>>)
            \o (IF umbrella_count > 0 /\ specific_count = 0
                THEN <<Message("Consider adding specific tags to provide more detail about the activity", <<>>)>>
                ELSE <<>>)
    IN  TagValidationResult(errors = <<>>, normalized_tags, errors, warnings,
                            suggestions)

\* TagValidator.validate_and_normalize
validate_and_normalize(tags) ==
    LET step1 == NormalizeFrom(tags, 1, <<>>, <<>>)
    IN  ValidateNormalized(UniqueFrom(step1.normalized_tags, 1, <<>>),
                           step1.suggestions)

\* The set suggested_tags: the tags of every keyword found in the name.
SuggestedTags(habit_name) ==
    UNION {Range(keyword_mapping[k].tags) :
            k \in {j \in 1..Len(keyword_mapping) :
                    Contains(lower(habit_name), keyword_mapping[j].keyword)}}

\* The orders in which iterating a Python set can yield its members.
RECURSIVE IterationOrders(_)
IterationOrders(set) ==
    IF set = {} THEN {<<>>}
    ELSE UNION {{<<x>> \o order : order \in IterationOrders(set \ {x})} : x \in set}

\* list[:limit]
SliceTo(list, limit) ==
    IF limit >= 0
    THEN SubSeq(list, 1, IF limit < Len(list) THEN limit ELSE Len(list))
    ELSE SubSeq(list, 1, IF Len(list) + limit > 0 THEN Len(list) + limit ELSE 0)

\* A variant that slices the groups one after the other.
suggest_tags_for_habit_name_per_group(habit_name, limit, order) ==
    SliceTo(SelectSeq(order, LAMBDA tag : tag \in UMBRELLA_TAGS), limit)
    \o SliceTo(SelectSeq(order, LAMBDA tag : tag \notin UMBRELLA_TAGS), limit)

\* A variant that puts the specific tags first.
suggest_tags_for_habit_name_specific_first(habit_name, limit, order) ==
    SliceTo(SelectSeq(order, LAMBDA tag : tag \notin UMBRELLA_TAGS)
            \o SelectSeq(order, LAMBDA tag : tag \in UMBRELLA_TAGS), limit)

\* TagValidator.suggest_tags_for_habit_name; order is the order in which the
\* set suggested_tags is iterated during the call.
suggest_tags_for_habit_name(habit_name, limit, order) ==
    LET umbrella_suggestions == SelectSeq(order, LAMBDA tag : tag \in UMBRELLA_TAGS)
        specific_suggestions == SelectSeq(order, LAMBDA tag : tag \notin UMBRELLA_TAGS)
    IN  SliceTo(umbrella_suggestions \o specific_suggestions, limit)

(***************************************************************************)
(* The validator's functions applied to bounded inputs.  last records the   *)
(* call: the function, its argument, the limit and the result.              *)
(***************************************************************************)
MaxTagLen == 3
MaxTags == 2
MaxLimit == 3

TagCall(op, input, limit, ret) ==
    [op |-> op, input |-> input, limit |-> limit, ret |-> ret]

\* One character of each class the functions tell apart.
TagAlphabet == {"a", "B", "7", "-", "_", " ", "\n", "!"}

RECURSIVE StringsUpTo(_)
StringsUpTo(n) ==
    IF n = 0 THEN {<<>>}
    ELSE LET shorter == StringsUpTo(n - 1)
         IN  shorter \cup {Append(s, c) : s \in shorter, c \in TagAlphabet}

TagStrings == StringsUpTo(MaxTagLen)

\* Tags a caller may submit.
TagInputs ==
    {Tag.health, Tag.food, Tag.exercise, Tag.cost_saving,
     <<"H", "e", "a", "l", "t", "h">>, \* "Health"
     <<"M", "e", "a", "l", " ", "P", "r", "e", "p">>, \* "Meal Prep"
     <<"_", "f", "o", "o", "d", "_">>, \* "_food_"
     <<"g", "y", "m", "2">>, \* "gym2"
     <<"y", "o", "g", "a">>, \* "yoga"
     <<>>, \* ""
     <<" ", " ">>, \* "  "
     <<"!", "!", "!">>} \* "!!!"

RECURSIVE TagListsUpTo(_)
TagListsUpTo(n) ==
    IF n = 0 THEN {<<>>}
    ELSE LET shorter == TagListsUpTo(n - 1)
         IN  shorter \cup {Append(tags, tag) : tags \in shorter, tag \in TagInputs}

TagLists == TagListsUpTo(MaxTags)

\* Habit names a caller may submit.
HabitNames ==
    {<<"M", "o", "r", "n", "i", "n", "g", " ", "R", "u", "n">>, \* "Morning Run"
     <<"G", "y", "m", " ", "w", "o", "r", "k", "o", "u", "t">>, \* "Gym workout"
     <<"C", "o", "o", "k", " ", "d", "i", "n", "n", "e", "r">>, \* "Cook dinner"
     <<"B", "A", "R", "T", " ", "t", "o", " ", "t", "h", "e", " ", "g", "y", "m">>, \* "BART to the gym"
     <<"P", "R", "U", "N", "E", " ", "r", "o", "s", "e", "s">>, \* "PRUNE roses"
     <<"R", "e", "a", "d", "i", "n", "g">>, \* "Reading"
     <<>>} \* ""

Limits == (0 - 1)..MaxLimit

TagInit ==
    /\ sources = InitialSources(FALSE, FALSE)
    /\ primary_source = InitialPrimary(FALSE)
    /\ calendar_source = InitialCalendarSource
    /\ sample_data = SampleData
    /\ last = Idle

NormalizeTag ==
    \E tag \in TagStrings :
        /\ last.op = "idle"
        /\ last' = TagCall("normalize_tag", tag, 0, normalize_tag(tag))
        /\ UNCHANGED <<sources, primary_source, calendar_source, sample_data>>

IsKebabCase ==
    \E tag \in TagStrings :
        /\ last.op = "idle"
        /\ last' = TagCall("is_kebab_case", tag, 0, is_kebab_case(tag))
        /\ UNCHANGED <<sources, primary_source, calendar_source, sample_data>>

ValidateAndNormalize ==
    \E tags \in TagLists :
        /\ last.op = "idle"
        /\ last' = TagCall("validate_and_normalize", tags, 0,
                           validate_and_normalize(tags))
        /\ UNCHANGED <<sources, primary_source, calendar_source, sample_data>>

SuggestTagsForHabitName ==
    \E habit_name \in HabitNames, limit \in Limits :
      \E order \in IterationOrders(SuggestedTags(habit_name)) :
        /\ last.op = "idle"
        /\ last' = TagCall("suggest_tags_for_habit_name", habit_name, limit,
                           suggest_tags_for_habit_name(habit_name, limit, order))
        /\ UNCHANGED <<sources, primary_source, calendar_source, sample_data>>

TagNext ==
    \/ NormalizeTag
    \/ IsKebabCase
    \/ ValidateAndNormalize
    \/ SuggestTagsForHabitName
    \/ Return

SpecTags == TagInit /\ [][TagNext]_vars

(***************************************************************************)
(* The Participants cell of a spreadsheet row, from the CSV text to the     *)
(* event's participants field (simple_sheets.py).                           *)
(***************************************************************************)

\* The cell texts pandas.read_csv reads as missing (NaN) by default.
STR_NA_VALUES ==
    {<<>>, <<"#", "N", "/", "A">>,
     <<"#", "N", "/", "A", " ", "N", "/", "A">>, <<"#", "N", "A">>,
     <<"-", "1", ".", "#", "I", "N", "D">>,
     <<"-", "1", ".", "#", "Q", "N", "A", "N">>, <<"-", "N", "a", "N">>,
     <<"-", "n", "a", "n">>, <<"1", ".", "#", "I", "N", "D">>,
     <<"1", ".", "#", "Q", "N", "A", "N">>, <<"<", "N", "A", ">">>,
     <<"N", "/", "A">>, <<"N", "A">>, <<"N", "U", "L", "L">>,
     <<"N", "a", "N">>, <<"N", "o", "n", "e">>, <<"n", "/", "a">>,
     <<"n", "a", "n">>, <<"n", "u", "l", "l">>}

\* str(row['Participants']) for a cell of a text column: a missing value
\* prints as nan, any other cell is its text.
CellStr(cell) == IF cell \in STR_NA_VALUES THEN <<"n", "a", "n">> ELSE cell

\* str.split(sep) from position i on; pieces are the finished pieces and
\* piece the one being read.
RECURSIVE SplitFrom(_, _, _, _, _)
SplitFrom(s, i, sep, pieces, piece) ==
    IF i > Len(s) THEN Append(pieces, piece)
    ELSE IF s[i] = sep THEN SplitFrom(s, i + 1, sep, Append(pieces, piece), <<>>)
    ELSE SplitFrom(s, i + 1, sep, pieces, Append(piece, s[i]))

split(s, sep) == SplitFrom(s, 1, sep, <<>>, <<>>)

\* An Optional[List[str]]: None, or a list of names.
NoParticipants == [absent |-> TRUE, names |-> <<>>]

ParticipantList(names) == [absent |-> FALSE, names |-> names]

NoneWord == <<"n", "o", "n", "e">>

NullWord == <<"n", "u", "l", "l">>

\* SimpleGoogleSheetsDataSource._parse_participants
_parse_participants(participants_str) ==
    IF participants_str = <<>> \/ lower(participants_str) \in {NoneWord, NullWord, <<>>}
    THEN NoParticipants
    ELSE LET pieces == split(participants_str, ",")
             participants == [k \in 1..Len(pieces) |-> strip(pieces[k], Whitespace)]
         IN  ParticipantList(SelectSeq(participants,
                                LAMBDA p : p # <<>> /\ lower(p) # NoneWord))

\* participants=self._parse_participants(str(row['Participants']))
RowParticipants(cell) == _parse_participants(CellStr(cell))

MaxCellLen == 4

CellAlphabet == {"n", "o", "e", "N", "a", ",", " "}

RECURSIVE CellsUpTo(_)
CellsUpTo(n) ==
    IF n = 0 THEN {<<>>}
    ELSE LET shorter == CellsUpTo(n - 1)
         IN  shorter \cup {Append(s, c) : s \in shorter, c \in CellAlphabet}

\* Participants cells of a sheet: the short texts and the spellings of null.
ParticipantCells ==
    CellsUpTo(MaxCellLen)
    \cup {NullWord, <<"N", "U", "L", "L">>, <<"N", "u", "l", "l">>}

\* One row of fetch_all_habits' loop, as far as participants goes.
ReadParticipants ==
    \E cell \in ParticipantCells :
        /\ last.op = "idle"
        /\ last' = TagCall("row.participants", cell, 0, RowParticipants(cell))
        /\ UNCHANGED <<sources, primary_source, calendar_source, sample_data>>

CellNext ==
    \/ ReadParticipants
    \/ Return

SpecCells == TagInit /\ [][CellNext]_vars

(***************************************************************************)
(* Properties.  They read the call in progress (last) against the state it *)
(* ran in: no action changes sources, primary_source or sample_data while  *)
(* a call is in progress, except set_primary_source itself.                *)
(***************************************************************************)
Ids(habits) == {habits[k].id : k \in 1..Len(habits)}

\* The adapter at position i reported available / answered fetch_all_habits
\* during the aggregate call in progress.
ReportedAvailable(i) ==
    LET avail == is_available(sources[i], last.envs[i])
    IN  ~avail.raised /\ avail.val

Answered(i) ==
    /\ ReportedAvailable(i)
    /\ ~fetch_all_habits(sources[i], last.envs[i], sample_data).raised

FetchAllResult(i) == fetch_all_habits(sources[i], last.envs[i], sample_data).val

\* The registration-order concatenation of the available adapters' results.
Concatenation ==
    Flatten([i \in 1..Len(sources) |->
                IF Answered(i) THEN FetchAllResult(i) ELSE <<>>])

AggregateReturned ==
    /\ last.op = "fetch_habits_from_all_sources"
    /\ ~last.ret.raised

\* C1: the result of fetch_habits_from_all_sources holds exactly one event per
\* distinct id some available adapter returned, and the event kept for an id
\* is a copy returned by the latest-registered adapter that returned that id.
C1_OnePerIdLaterWins ==
    AggregateReturned =>
        LET ret == last.ret.val
            answered == {i \in 1..Len(sources) : Answered(i)}
        IN  /\ Ids(ret) = UNION {Ids(FetchAllResult(i)) : i \in answered}
            /\ \A k, m \in 1..Len(ret) : ret[k].id = ret[m].id => k = m
            /\ \A k \in 1..Len(ret) :
                  LET having == {i \in answered : ret[k].id \in Ids(FetchAllResult(i))}
                      latest == CHOOSE i \in having : \A h \in having : h <= i
                  IN  ret[k] \in Range(FetchAllResult(latest))

\* Two adapters returned the same id with different content, and the call returned.
C1_Witness ==
    /\ AggregateReturned
    /\ \E i, j \in 1..Len(sources) :
          /\ i < j /\ Answered(i) /\ Answered(j)
          /\ \E a \in Range(FetchAllResult(i)), b \in Range(FetchAllResult(j)) :
                a.id = b.id /\ a # b /\ b \in Range(last.ret.val)

\* The ids of a list in the order of their first / last occurrence.
FirstOccurrences(habits) ==
    LET keep == {p \in 1..Len(habits) :
                    \A q \in 1..(p - 1) : habits[q].id # habits[p].id}
    IN  [k \in 1..Cardinality(keep) |->
            habits[CHOOSE p \in keep : Cardinality({q \in keep : q < p}) = k - 1]]

LastOccurrences(habits) ==
    LET keep == {p \in 1..Len(habits) :
                    \A q \in (p + 1)..Len(habits) : habits[q].id # habits[p].id}
    IN  [k \in 1..Cardinality(keep) |->
            habits[CHOOSE p \in keep : Cardinality({q \in keep : q < p}) = k - 1]]

IdsInOrder(habits) == [k \in 1..Len(habits) |-> habits[k].id]

\* C2 as stated: the survivors are ordered by the position of the first
\* occurrence of their id in the concatenation.
C2_OrderedByFirstOccurrence ==
    AggregateReturned =>
        IdsInOrder(last.ret.val) = IdsInOrder(FirstOccurrences(Concatenation))

\* C2 amended: the survivors are the last occurrences of their ids, in the
\* order of those last occurrences: the surviving copy stays at the slot of
\* the later-registered adapter's copy.
C2_OrderedByLastOccurrence ==
    AggregateReturned => last.ret.val = LastOccurrences(Concatenation)

\* An id returned twice whose first and last occurrence orders differ.
C2_Witness ==
    /\ AggregateReturned
    /\ IdsInOrder(FirstOccurrences(Concatenation))
          # IdsInOrder(LastOccurrences(Concatenation))

ManagerOps ==
    {"get_available_sources", "fetch_all_habits", "fetch_habits_by_date_range",
     "fetch_recent_habits", "fetch_habits_from_all_sources", "set_primary_source",
     "get_upcoming_today"}

\* C3 as stated: no DataSourceManager operation ever raises, whatever the
\* registered adapters do.
C3_NeverRaises ==
    last.op \in ManagerOps => ~last.ret.raised

\* C4 as stated: when an adapter fails during fetch_habits_from_all_sources
\* (its availability check or its fetch_all raises or yields nothing), the
\* call still returns and its result covers the events of every other
\* adapter that reported available and answered.
C4_FailureIsolated ==
    last.op = "fetch_habits_from_all_sources" =>
        /\ ~last.ret.raised
        /\ \A i \in 1..Len(sources) :
              Answered(i) => Ids(FetchAllResult(i)) \subseteq Ids(last.ret.val)

\* The positions registered under a name, and the earliest of them.
Named(source_name) == {i \in 1..Len(sources) : sources[i].name = source_name}
Earliest(source_name) ==
    CHOOSE i \in Named(source_name) : \A k \in Named(source_name) : i <= k

\* C5: fetch_all_habits(source_name) returns the primary's fetch_all result
\* when no name is given (None or the empty string) and the primary is
\* available, the named adapter's result when the name is registered and that
\* adapter is available, and the empty list when the resolved adapter reports
\* unavailable or the name is not registered.
C5_FetchAllResolution ==
    last.op = "fetch_all_habits" =>
        LET name == last.source_name
            resolved == IF ~Truthy(name) THEN last.old_primary
                        ELSE IF Named(name) # {} THEN Earliest(name) ELSE 0
        IN  IF resolved = 0 THEN last.ret = Returned(<<>>)
            ELSE LET avail == is_available(sources[resolved], last.env)
                 IN  /\ (~avail.raised /\ avail.val) =>
                            last.ret = fetch_all_habits(sources[resolved], last.env,
                                                        sample_data)
                     /\ (~avail.raised /\ ~avail.val) => last.ret = Returned(<<>>)

\* An unregistered name was asked for while the primary had events to give.
C5_Witness ==
    /\ last.op = "fetch_all_habits"
    /\ Truthy(last.source_name)
    /\ Named(last.source_name) = {}
    /\ sources[primary_source].kind = "mock"
    /\ last.ret = Returned(<<>>)

\* C6 as stated: set_primary_source(name) returns true and repoints the
\* primary when name is registered; for every other name, the empty string
\* and None included, it returns false and leaves the primary unchanged.
C6_SetPrimary ==
    last.op = "set_primary_source" =>
        IF Named(last.source_name) # {}
        THEN /\ last.ret = Returned(TRUE)
             /\ primary_source \in Named(last.source_name)
        ELSE /\ last.ret = Returned(FALSE)
             /\ primary_source = last.old_primary

\* C7 as stated: the manager's fetch_recent_habits returns what the resolved
\* adapter's own fetch_recent_habits(days) returns.
C7_RecentDelegates ==
    (last.op = "fetch_recent_habits" /\ last.source # 0) =>
        LET avail == is_available(sources[last.source], last.env)
        IN  (~avail.raised /\ avail.val) =>
                last.ret = fetch_recent_habits(sources[last.source], last.env,
                                               sample_data, last.end_date, last.days)

\* The call in progress is a range query (direct or through
\* fetch_recent_habits) an available adapter of the given class answered.
RangeAnsweredBy(kinds) ==
    /\ last.op \in {"fetch_habits_by_date_range", "fetch_recent_habits"}
    /\ last.source # 0
    /\ sources[last.source].kind \in kinds
    /\ LET avail == is_available(sources[last.source], last.env)
       IN  ~avail.raised /\ avail.val
    /\ ~last.ret.raised

\* C8 as stated: the mock adapter's range fetch returns exactly the fixture
\* events with start <= t <= end, in fixture order, for every pair of bounds,
\* the timezone-naive ones included.
C8_MockRangeExact ==
    (RangeAnsweredBy({"mock"}) /\ last.start_date.aware = last.end_date.aware) =>
        last.ret.val =
            SelectSeq(sample_data,
                      LAMBDA habit : /\ last.start_date.t <= habit.date.t
                                     /\ habit.date.t <= last.end_date.t)

\* The events the resolved adapter holds during the call in progress.
Held ==
    LET self == sources[last.source]
    IN  CASE self.kind = "mock" -> sample_data
          [] self.kind = "simple" -> SimpleFetchAllHabits(self, last.env)
          [] self.kind = "db" -> SupabaseFetchAllHabits(self, last.env)

\* The timestamp of an event is exactly the bound: for the mock and the CSV
\* adapter the parsed datetime equals it (same instant, same awareness), for
\* the database the stored instant equals it.
AtBound(habit, bound) ==
    IF sources[last.source].kind = "db" THEN habit.date.t = bound.t
    ELSE /\ ~FromIsoFormat(habit.date).raised
         /\ FromIsoFormat(habit.date).val = bound

\* C9: range queries are inclusive at both bounds for the mock, the CSV and
\* the database adapter: over a range start <= end, an event whose timestamp
\* equals start exactly or end exactly is in the result.
C9_InclusiveBounds ==
    (/\ RangeAnsweredBy({"mock", "simple", "db"})
     /\ last.start_date.aware = last.end_date.aware
     /\ last.start_date.t <= last.end_date.t) =>
        \A k \in 1..Len(Held) :
            (AtBound(Held[k], last.start_date) \/ AtBound(Held[k], last.end_date))
                => Held[k] \in Range(last.ret.val)

\* A range query returned one event lying exactly at start and another one
\* lying exactly at end.
C9_Witness ==
    /\ RangeAnsweredBy({"mock", "simple", "db"})
    /\ last.start_date.t < last.end_date.t
    /\ \E a, b \in Range(last.ret.val) :
          AtBound(a, last.start_date) /\ AtBound(b, last.end_date)

\* C10 as stated: every event an adapter returns from fetch_all_habits or
\* fetch_habits_by_date_range carries the adapter's name as its source, on
\* every call, whatever the field held before.
C10_SourceStamped ==
    (/\ last.op \in {"fetch_all_habits", "fetch_habits_by_date_range"}
     /\ last.source # 0
     /\ sources[last.source].kind \in {"mock", "simple", "api", "db"}
     /\ ~last.ret.raised) =>
        \A k \in 1..Len(last.ret.val) :
            last.ret.val[k].source = sources[last.source].name

\* The positions of the adapters that report available during the call, and
\* their names in registration order.
AvailablePositions == {i \in 1..Len(sources) : ReportedAvailable(i)}

AvailableNames ==
    [k \in 1..Cardinality(AvailablePositions) |->
        sources[CHOOSE i \in AvailablePositions :
                    Cardinality({j \in AvailablePositions : j < i}) = k - 1].name]

\* C11: whatever add_source and set_primary_source calls came before, a
\* get_available_sources call that returns yields exactly the names of the
\* registered adapters whose is_available() is true, in registration order.
C11_AvailableNamesInOrder ==
    (last.op = "get_available_sources" /\ ~last.ret.raised) =>
        last.ret.val = AvailableNames

\* Three adapters are registered, the primary is not the first one, one
\* adapter is unavailable and two names are returned.
C11_Witness ==
    /\ last.op = "get_available_sources"
    /\ ~last.ret.raised
    /\ Len(sources) = 3
    /\ primary_source # 1
    /\ Len(last.ret.val) = 2

\* C12: get_upcoming_today never raises; it returns the calendar adapter's
\* list when a calendar adapter is present and its call succeeds, and exactly
\* the fallback list when the adapter is absent or its call raises.
C12_UpcomingOrFallback ==
    last.op = "get_upcoming_today" =>
        /\ ~last.ret.raised
        /\ last.ret.val = IF calendar_source # None /\ last.env.ok
                            THEN last.env.rows
                            ELSE FallbackUpcoming

\* A calendar adapter is present and answers with no events: the empty list
\* is returned, not the fallback.
C12_Witness ==
    /\ last.op = "get_upcoming_today"
    /\ calendar_source # None
    /\ last.env.ok
    /\ last.env.rows = <<>>
    /\ last.ret = Returned(<<>>)

\* The adapter at position i is a database adapter built without a client.
Unconfigured(i) ==
    /\ i \in 1..Len(sources)
    /\ sources[i].kind = "db"
    /\ ~sources[i].client

AdapterOps == {"adapter.is_available", "adapter.fetch_all_habits",
               "adapter.fetch_habits_by_date_range", "adapter.create_habit"}

\* What a call on the adapter at position i yields when it has no client.
UnconfiguredOutcome(i) ==
    (last.op \in AdapterOps /\ last.source = i) =>
        last.ret = IF last.op \in {"adapter.is_available", "adapter.create_habit"}
                     THEN Returned(FALSE)
                     ELSE Returned(<<>>)

\* C13: once a database adapter is constructed without a usable client it
\* stays without one, and every later is_available() on it returns false,
\* fetch_all_habits and fetch_habits_by_date_range return the empty list and
\* create_habit returns false, none of them raising.
C13_PermanentlyUnavailable ==
    [][\A i \in 1..Len(sources) :
          Unconfigured(i) => (Unconfigured(i) /\ UnconfiguredOutcome(i))']_vars

\* create_habit is called on a client-less database adapter after an earlier
\* registration, and answers false.
C13_Witness ==
    /\ last.op = "adapter.create_habit"
    /\ Unconfigured(last.source)
    /\ last.ret = Returned(FALSE)

ShippedKinds == {"mock", "simple", "api", "db"}

\* C14 as stated: for the mock, spreadsheet-CSV, spreadsheet-API and database
\* adapters, fetch_all_habits called while is_available() would report false
\* returns the empty list and does not raise.
C14_UnavailableFetchEmpty ==
    (/\ last.op = "adapter.fetch_all_habits"
     /\ sources[last.source].kind \in ShippedKinds
     /\ is_available(sources[last.source], last.env) = Returned(FALSE)) =>
        last.ret = Returned(<<>>)

(***************************************************************************)
(* Properties of the tag validator, read from the call recorded in last.   *)
(***************************************************************************)

\* One or more non-empty runs of a-z joined by single hyphens.
KebabShape(s) ==
    /\ Len(s) > 0
    /\ \A i \in 1..Len(s) : s[i] \in Range(Lowers) \cup {"-"}
    /\ s[1] # "-"
    /\ s[Len(s)] # "-"
    /\ \A i \in 1..(Len(s) - 1) : ~(s[i] = "-" /\ s[i + 1] = "-")

UmbrellaRequired ==
    Message("At least one umbrella tag is required (health, food, home, transportation)", <<>>)

AllBlank(tags) == \A i \in 1..Len(tags) : strip(tags[i], Whitespace) = <<>>

\* C15: validate_and_normalize(tags).is_valid holds exactly when errors is
\* empty, and exactly when every normalized tag is kebab-case and at least
\* one normalized tag is an umbrella tag, whatever the warnings and
\* suggestions are; an empty or all-blank input is invalid with the
\* umbrella-missing error and no normalized tags.
C15_ValidIffKebabAndUmbrella ==
    last.op = "validate_and_normalize" =>
        LET result == last.ret
            normalized_tags == result.normalized_tags
        IN  /\ result.is_valid = (result.errors = <<>>)
            /\ result.is_valid =
                  (/\ \A i \in 1..Len(normalized_tags) : KebabShape(normalized_tags[i])
                   /\ \E i \in 1..Len(normalized_tags) :
                          normalized_tags[i] \in UMBRELLA_TAGS)
            /\ AllBlank(last.input) =>
                  /\ ~result.is_valid
                  /\ normalized_tags = <<>>
                  /\ UmbrellaRequired \in Range(result.errors)

\* A valid result that carries a warning and a suggestion.
C15_Witness ==
    /\ last.op = "validate_and_normalize"
    /\ last.ret.is_valid
    /\ last.ret.warnings # <<>>
    /\ last.ret.suggestions # <<>>
    /\ Len(last.ret.normalized_tags) = 2

\* C16: normalize_tag is idempotent: normalizing its result again changes
\* nothing, for every string of upper- and lower-case letters, digits,
\* hyphens, underscores, whitespace and punctuation.
C16_NormalizeIdempotent ==
    last.op = "normalize_tag" => normalize_tag(last.ret) = last.ret

\* A tag that normalization changed into a hyphenated tag.
C16_Witness ==
    /\ last.op = "normalize_tag"
    /\ last.ret # last.input
    /\ Len(last.ret) = 3
    /\ last.ret[2] = "-"

\* C17 as stated: is_kebab_case(tag) holds exactly for one or more non-empty
\* runs of a-z joined by single hyphens; it is false for the empty string
\* and for every string with a digit, an upper-case letter, whitespace, a
\* newline (a single trailing one included), a leading, trailing or doubled
\* hyphen.
C17_KebabExactly ==
    last.op = "is_kebab_case" => last.ret = KebabShape(last.input)

\* C18: an unapproved normalized tag gives a warning, never an error: an
\* input with an umbrella tag whose normalized tags are all kebab-case is
\* valid even when some are outside APPROVED_TAGS, the warning lists exactly
\* the unapproved normalized tags, and there is no warning when every
\* normalized tag is approved.
C18_UnapprovedWarnsOnly ==
    last.op = "validate_and_normalize" =>
        LET result == last.ret
            normalized_tags == result.normalized_tags
            unapproved == SelectSeq(normalized_tags,
                                    LAMBDA tag : tag \notin APPROVED_TAGS)
        IN  /\ (/\ \E i \in 1..Len(normalized_tags) :
                       normalized_tags[i] \in UMBRELLA_TAGS
                /\ \A i \in 1..Len(normalized_tags) : KebabShape(normalized_tags[i]))
                  => result.is_valid /\ result.errors = <<>>
            /\ result.warnings =
                  IF unapproved = <<>> THEN <<>>
                  ELSE <<Message("Unapproved tags detected: {}", unapproved)>>

\* An umbrella tag with an unapproved kebab-case tag: valid, one warning
\* naming that tag only.
C18_Witness ==
    /\ last.op = "validate_and_normalize"
    /\ last.ret.is_valid
    /\ Len(last.ret.normalized_tags) = 2
    /\ Len(last.ret.warnings) = 1
    /\ Len(last.ret.warnings[1].args) = 1
    /\ last.ret.warnings[1].args[1] \notin APPROVED_TAGS

\* C19: for every limit >= 0, suggest_tags_for_habit_name(name, limit)
\* repeats no tag, draws its tags from the tag lists of the keywords found in
\* the lower-cased name, puts every umbrella tag before every other tag and
\* has length min(limit, size of that union); without a keyword it is empty.
C19_SuggestionsShape ==
    (last.op = "suggest_tags_for_habit_name" /\ last.limit >= 0) =>
        LET suggested == last.ret
            union == {tag \in APPROVED_TAGS :
                        \E k \in 1..Len(keyword_mapping) :
                            /\ Contains(lower(last.input), keyword_mapping[k].keyword)
                            /\ tag \in Range(keyword_mapping[k].tags)}
        IN  /\ \A i, j \in 1..Len(suggested) : suggested[i] = suggested[j] => i = j
            /\ Range(suggested) \subseteq union
            /\ \A i, j \in 1..Len(suggested) :
                  (suggested[i] \notin UMBRELLA_TAGS /\ suggested[j] \in UMBRELLA_TAGS)
                      => j < i
            /\ Len(suggested) =
                  IF last.limit < Cardinality(union) THEN last.limit
                  ELSE Cardinality(union)

\* A name with keywords of two umbrellas, cut by the limit after the two
\* umbrella tags and one specific tag.
C19_Witness ==
    /\ last.op = "suggest_tags_for_habit_name"
    /\ last.limit = 3
    /\ Len(last.ret) = 3
    /\ Cardinality(SuggestedTags(last.input)) > 3
    /\ last.ret[2] \in UMBRELLA_TAGS
    /\ last.ret[3] \notin UMBRELLA_TAGS

\* The values of a list, each at the place of its first occurrence.
DistinctInOrder(list) ==
    LET keep == {p \in 1..Len(list) : \A q \in 1..(p - 1) : list[q] # list[p]}
    IN  [k \in 1..Cardinality(keep) |->
            list[CHOOSE p \in keep : Cardinality({q \in keep : q < p}) = k - 1]]

\* The non-empty normalized forms of the non-blank tags, in input order.
NormalizedForms(tags) ==
    LET forms == [i \in 1..Len(tags) |->
                    IF strip(tags[i], Whitespace) = <<>> THEN <<>>
                    ELSE normalize_tag(tags[i])]
    IN  SelectSeq(forms, LAMBDA form : form # <<>>)

\* C20: normalized_tags holds no empty string and no duplicate, and lists
\* the distinct normalized forms of the non-blank inputs in the order of
\* their first occurrence.
C20_DistinctNormalizedInOrder ==
    last.op = "validate_and_normalize" =>
        LET normalized_tags == last.ret.normalized_tags
        IN  /\ \A i \in 1..Len(normalized_tags) : normalized_tags[i] # <<>>
            /\ \A i, j \in 1..Len(normalized_tags) :
                  normalized_tags[i] = normalized_tags[j] => i = j
            /\ normalized_tags = DistinctInOrder(NormalizedForms(last.input))

\* Two different inputs with the same normalized form leave one tag.
C20_Witness ==
    /\ last.op = "validate_and_normalize"
    /\ Len(last.input) = 2
    /\ last.input[1] # last.input[2]
    /\ NormalizedForms(last.input) = <<Tag.food, Tag.food>>
    /\ last.ret.normalized_tags = <<Tag.food>>

NormalizedTo == "'{}' normalized to '{}'"

\* The non-blank tags of the input, in input order.
NonBlank(tags) == SelectSeq(tags, LAMBDA tag : strip(tag, Whitespace) # <<>>)

\* C21 as stated: validate_and_normalize records a 'normalized to'
\* suggestion for every non-blank input tag whose normalized form differs
\* from the raw input, a tag that normalizes to the empty string included,
\* and none for a tag already in normalized form.
C21_SuggestionPerChangedTag ==
    last.op = "validate_and_normalize" =>
        LET changed == SelectSeq(NonBlank(last.input),
                                 LAMBDA tag : normalize_tag(tag) # tag)
        IN  SelectSeq(last.ret.suggestions, LAMBDA s : s.text = NormalizedTo)
              = [k \in 1..Len(changed) |->
                    Message(NormalizedTo, <<changed[k], normalize_tag(changed[k])>>)]

AddUmbrella == "Consider adding umbrella tag(s): {}"

\* The umbrellas whose TAG_HIERARCHY entry lists one of the tags.
Parents(tags) ==
    {TAG_HIERARCHY[k].umbrella :
        k \in {j \in 1..Len(TAG_HIERARCHY) :
                Range(tags) \cap Range(TAG_HIERARCHY[j].specific_tags) # {}}}

\* The four umbrella names in alphabetical order.
UmbrellasSorted == <<Tag.food, Tag.health, Tag.home, Tag.transportation>>

\* C22: when no normalized tag is an umbrella tag, validate_and_normalize
\* adds one umbrella suggestion naming exactly the parents in TAG_HIERARCHY
\* of the normalized tags, each once and in sorted order; it adds none when
\* no tag has a parent, and none when an umbrella tag is present.
C22_UmbrellaSuggestion ==
    last.op = "validate_and_normalize" =>
        LET normalized_tags == last.ret.normalized_tags
            parents == Parents(normalized_tags)
        IN  SelectSeq(last.ret.suggestions, LAMBDA s : s.text = AddUmbrella)
              = IF Range(normalized_tags) \cap UMBRELLA_TAGS # {} \/ parents = {}
                  THEN <<>>
                  ELSE <<Message(AddUmbrella,
                                 SelectSeq(UmbrellasSorted,
                                           LAMBDA umbrella : umbrella \in parents))>>

\* Two specific tags of different umbrellas, given in the reverse of the
\* alphabetical order of their umbrellas.
C22_Witness ==
    /\ last.op = "validate_and_normalize"
    /\ last.ret.normalized_tags = <<Tag.cost_saving, Tag.exercise>>
    /\ Message(AddUmbrella, <<Tag.health, Tag.transportation>>)
          \in Range(last.ret.suggestions)

AddSpecific ==
    Message("Consider adding specific tags to provide more detail about the activity", <<>>)

\* C23: the 'add specific tags' advisory is among the suggestions exactly
\* when some normalized tag is an umbrella tag and every other one is an
\* umbrella tag or one of the contextual tags cost-saving and restock; a
\* result that carries it is not made invalid by it.
C23_AddSpecificAdvisory ==
    last.op = "validate_and_normalize" =>
        LET normalized_tags == last.ret.normalized_tags
            advised == AddSpecific \in Range(last.ret.suggestions)
        IN  /\ advised =
                  (/\ Range(normalized_tags) \cap UMBRELLA_TAGS # {}
                   /\ Range(normalized_tags)
                        \subseteq UMBRELLA_TAGS \cup {Tag.cost_saving, Tag.restock})
            /\ advised => last.ret.is_valid /\ last.ret.errors = <<>>

\* An umbrella tag with a contextual tag only: advised and valid.
C23_Witness ==
    /\ last.op = "validate_and_normalize"
    /\ Range(last.ret.normalized_tags) = {Tag.food, Tag.cost_saving}
    /\ AddSpecific \in Range(last.ret.suggestions)
    /\ last.ret.is_valid

\* Non-empty runs of a-z and 0-9 joined by single hyphens.
AlphanumericRuns(s) ==
    /\ Len(s) > 0
    /\ \A i \in 1..Len(s) : s[i] \in Range(Lowers) \cup Digits \cup {"-"}
    /\ s[1] # "-"
    /\ s[Len(s)] # "-"
    /\ \A i \in 1..(Len(s) - 1) : ~(s[i] = "-" /\ s[i + 1] = "-")

HasDigit(s) == \E i \in 1..Len(s) : s[i] \in Digits

KebabFormat == "Tags must use kebab-case format: {}"

\* C25: normalize_tag(t) is empty or consists of non-empty runs of a-z and
\* 0-9 joined by single hyphens, without a leading or trailing hyphen; a
\* non-empty normalized tag fails is_kebab_case exactly when it holds a
\* digit, and validate_and_normalize reports the format error exactly for
\* the normalized forms that hold a digit.
C25_NormalizedShape ==
    /\ last.op = "normalize_tag" =>
          /\ last.ret = <<>> \/ AlphanumericRuns(last.ret)
          /\ last.ret # <<>> => (is_kebab_case(last.ret) = ~HasDigit(last.ret))
    /\ last.op = "validate_and_normalize" =>
          LET with_digit == SelectSeq(DistinctInOrder(NormalizedForms(last.input)),
                                      HasDigit)
          IN  SelectSeq(last.ret.errors, LAMBDA e : e.text = KebabFormat)
                = IF with_digit = <<>> THEN <<>>
                  ELSE <<Message(KebabFormat, with_digit)>>

\* A tag that normalizes to a digit run and a letter run joined by a hyphen.
C25_Witness ==
    /\ last.op = "normalize_tag"
    /\ last.ret = <<"7", "-", "a">>
    /\ last.input # last.ret

\* C30: for every habit name and every limit >= 1, a non-empty result of
\* suggest_tags_for_habit_name holds an umbrella tag and only approved
\* kebab-case tags, and validate_and_normalize applied to it is valid, has
\* no errors and no warnings and returns the same tags.
C30_SuggestionsValidate ==
    (/\ last.op = "suggest_tags_for_habit_name"
     /\ last.limit >= 1
     /\ last.ret # <<>>) =>
        LET result == validate_and_normalize(last.ret)
        IN  /\ Range(last.ret) \cap UMBRELLA_TAGS # {}
            /\ \A i \in 1..Len(last.ret) :
                  last.ret[i] \in APPROVED_TAGS /\ KebabShape(last.ret[i])
            /\ result.is_valid
            /\ result.errors = <<>>
            /\ result.warnings = <<>>
            /\ result.normalized_tags = last.ret

\* A limit of one cuts a larger suggestion set down to one umbrella tag.
C30_Witness ==
    /\ last.op = "suggest_tags_for_habit_name"
    /\ last.limit = 1
    /\ Cardinality(SuggestedTags(last.input)) > 1
    /\ Len(last.ret) = 1
    /\ last.ret[1] \in UMBRELLA_TAGS
    /\ validate_and_normalize(last.ret).is_valid

\* C24 as stated: for a row whose Participants cell is blank or is the text
\* none or null in any case, the event of the CSV adapter's fetch_all_habits
\* has participants absent (None), not an empty list and not a list holding
\* a placeholder string.
C24_BlankParticipantsAbsent ==
    (/\ last.op = "row.participants"
     /\ \/ strip(last.input, Whitespace) = <<>>
        \/ lower(last.input) \in {NoneWord, NullWord}) =>
        last.ret = NoParticipants

\* C26: in every state reached from construction by add_source and
\* set_primary_source calls, the primary adapter is set and is one of the
\* registered adapters, and the mock adapter is registered first.
C26_PrimaryRegistered ==
    /\ primary_source \in 1..Len(sources)
    /\ sources[1] = MockDataSource

\* An adapter was added and then made primary by name.
C26_Witness ==
    /\ last.op = "set_primary_source"
    /\ last.ret = Returned(TRUE)
    /\ last.old_primary = 1
    /\ primary_source = 2
    /\ sources[2].kind = "stub"

\* The position of the last occurrence of an id in the concatenation.
LastPosition(id) ==
    CHOOSE p \in 1..Len(Concatenation) :
        /\ Concatenation[p].id = id
        /\ \A q \in (p + 1)..Len(Concatenation) : Concatenation[q].id # id

\* C27: the result of fetch_habits_from_all_sources is an order-preserving
\* subsequence of the registration-order concatenation of the available
\* adapters' results: its ids are exactly the ids of the concatenation, each
\* element is the last occurrence of its id there (also when one adapter
\* returns an id twice), and the elements keep their relative order.
C27_SubsequenceOfLastOccurrences ==
    AggregateReturned =>
        LET result == last.ret.val
        IN  /\ {result[k].id : k \in 1..Len(result)}
                  = {Concatenation[p].id : p \in 1..Len(Concatenation)}
            /\ \A k \in 1..Len(result) :
                  result[k] = Concatenation[LastPosition(result[k].id)]
            /\ \A j, k \in 1..Len(result) :
                  j < k => LastPosition(result[j].id) < LastPosition(result[k].id)

\* One adapter returned the same id twice, as two different events, and the
\* result holds the second one only.
C27_Witness ==
    /\ AggregateReturned
    /\ \E i \in 1..Len(sources) :
          /\ Answered(i)
          /\ Len(FetchAllResult(i)) = 2
          /\ FetchAllResult(i)[1].id = FetchAllResult(i)[2].id
          /\ FetchAllResult(i)[1] # FetchAllResult(i)[2]
          /\ FetchAllResult(i)[2] \in Range(last.ret.val)
          /\ FetchAllResult(i)[1] \notin Range(last.ret.val)

ByNameOps ==
    {"fetch_all_habits", "fetch_habits_by_date_range", "fetch_recent_habits",
     "set_primary_source"}

\* The positions of the adapters registered under a name an earlier
\* adapter already has.
LaterDuplicates ==
    {j \in 1..Len(sources) : \E i \in 1..(j - 1) : sources[i].name = sources[j].name}

\* C29: when an adapter is registered under the name of an earlier one,
\* every by-name operation resolves that name to the earliest adapter, the
\* later one is never the primary, yet it contributes its events to
\* fetch_habits_from_all_sources and get_available_sources lists the name
\* once for each available adapter that has it.
C29_DuplicateNameResolvesEarliest ==
    /\ primary_source \notin LaterDuplicates
    /\ (/\ last.op \in ByNameOps
        /\ Truthy(last.source_name)
        /\ Named(last.source_name) # {}) =>
            /\ last.source = Earliest(last.source_name)
            /\ last.op = "set_primary_source" =>
                  primary_source = Earliest(last.source_name)
            /\ (/\ last.op = "fetch_all_habits"
                /\ is_available(sources[Earliest(last.source_name)], last.env)
                      = Returned(TRUE)) =>
                  last.ret = fetch_all_habits(sources[Earliest(last.source_name)],
                                              last.env, sample_data)
    /\ AggregateReturned =>
          \A j \in LaterDuplicates :
              Answered(j) =>
                  \A p \in 1..Len(FetchAllResult(j)) :
                      \E k \in 1..Len(last.ret.val) :
                          last.ret.val[k].id = FetchAllResult(j)[p].id
    /\ (last.op = "get_available_sources" /\ ~last.ret.raised) =>
          \A j \in LaterDuplicates :
              Cardinality({k \in 1..Len(last.ret.val) :
                              last.ret.val[k] = sources[j].name})
                = Cardinality({i \in Named(sources[j].name) : ReportedAvailable(i)})

\* A second adapter is registered under the mock adapter's name, and a
\* fetch by that name is answered by the mock adapter.
C29_Witness ==
    /\ last.op = "fetch_all_habits"
    /\ LaterDuplicates # {}
    /\ last.source_name = MockName
    /\ last.source = 1
    /\ last.ret = Returned(sample_data)

====
